---- MODULE Spec2Model ----
(***************************************************************************)
(* Model of zero-lock's session-lock client (src/src/locker.rs): the App   *)
(* aggregate (state, surface_ids, now), App::init and one action per arm   *)
(* of App::update.  Messages are the ones App::subscription can produce;   *)
(* they are handled one at a time.  `commands` is the log of every         *)
(* outbound request returned to the runtime so far, `emitted` the batch    *)
(* returned by the step just taken.                                        *)
(***************************************************************************)
EXTENDS Integers, Sequences, FiniteSets, TLC

\* ---------------------------------------------------------------- bounds
NumOutputs == 2
MaxSurfaceId == 3
MaxCommands == 4
MaxNow == 1

\* ------------------------------------------------------ program constants
ExitOk == 0
PanicExitCode == 101

Outputs == 1..NumOutputs
NoOutput == 0
NoSurface == 0

VARIABLES
    state,        \* App.state
    surface_ids,  \* App.surface_ids : HashMap<WlOutput, SurfaceId>
    now,          \* App.now, as the number of clock samples taken after init
    unique_count, \* the counter behind SurfaceId::unique()
    commands,     \* every command returned to the runtime so far, in order
    emitted,      \* the commands returned by the last step
    warning,      \* the log::warn! line of the last step, "" when none
    proc,         \* "running", "exited" (process::exit) or "panicked" (todo!())
    exit_code,    \* the process's exit status, -1 while running
    msg,          \* the message handled by the last step
    connected,    \* history: outputs the compositor created and has not removed
    locked_seen,  \* history: a SessionLocked confirmation was handled
    locked_pairs  \* history: the <<output, id>> pairs registered at such a confirmation

vars == <<state, surface_ids, now, unique_count, commands, emitted, warning,
          proc, exit_code, msg, connected, locked_seen, locked_pairs>>

\* ------------------------------------------------------------- data model
States == {"Locking", "Locked", "Unlocking", "Unlocked"}

Cmd(op, id, output) == [op |-> op, id |-> id, output |-> output]
lock == Cmd("RequestLock", NoSurface, NoOutput)
unlock == Cmd("RequestUnlock", NoSurface, NoOutput)
get_lock_surface(id, output) == Cmd("CreateSurface", id, output)
destroy_lock_surface(id) == Cmd("DestroySurface", id, NoOutput)

\* A message: its kind and, for an output event, the output it is about.
OutMsg(kind, output) == [kind |-> kind, output |-> output]
Msg(kind) == OutMsg(kind, NoOutput)

EmptyMap == [o \in {} |-> NoSurface]

\* HashMap::insert: the new value replaces the one the key had.
InsertKeepingOld(map, k, v) ==
    [x \in DOMAIN map \cup {k} |-> IF x \in DOMAIN map THEN map[x] ELSE v]
Insert(map, k, v) ==
    [x \in DOMAIN map \cup {k} |-> IF x = k THEN v ELSE map[x]]

\* HashMap::remove
RemoveClearingAll(map, k) == EmptyMap
Remove(map, k) == [x \in DOMAIN map \ {k} |-> map[x]]

\* SurfaceId::unique(): the value handed out, and the counter after it.
UniqueStuck(count) == count
UniqueAfter(count) == count + 1

\* The orders in which HashMap::iter may visit the entries.
IterOrders(map) ==
    LET n == Cardinality(DOMAIN map)
    IN  {s \in [1..n -> DOMAIN map] : \A i, j \in 1..n : i # j => s[i] # s[j]}

\* The batch built by the loop of the Locked arm, for one iteration order.
NoLockSurfaces(map, order) == <<>>
LockSurfaces(map, order) ==
    [i \in 1..Len(order) |-> get_lock_surface(map[order[i]], order[i])]

\* matches!(self.state, State::Locked)
AnyState(s) == TRUE
IsNotLocking(s) == s # "Locking"
IsLocked(s) == s = "Locked"

\* ------------------------------------------------------------------ init
Init ==
    /\ state = "Unlocked"
    /\ surface_ids = EmptyMap
    /\ now = 0
    /\ unique_count = 1
    /\ commands = <<lock>>
    /\ emitted = <<lock>>
    /\ warning = ""
    /\ proc = "running"
    /\ exit_code = -1
    /\ msg = Msg("Init")
    /\ connected = {}
    /\ locked_seen = FALSE
    /\ locked_pairs = {}

\* One call of update returning the batch `cmds`.
Returns(m, cmds, warn) ==
    /\ Len(commands) + Len(cmds) <= MaxCommands
    /\ msg' = m
    /\ emitted' = cmds
    /\ commands' = commands \o cmds
    /\ warning' = warn

StillRunning == proc' = proc /\ exit_code' = exit_code

\* --------------------------------------------------------------- actions
OutputCreatedCoversWhenLocked(o) ==
    /\ proc = "running"
    /\ unique_count <= MaxSurfaceId
    /\ unique_count' = UniqueAfter(unique_count)
    /\ surface_ids' = Insert(surface_ids, o, unique_count)
    /\ Returns(OutMsg("OutputCreated", o),
               IF state = "Locked"
               THEN <<get_lock_surface(unique_count, o)>> ELSE <<>>,
               IF o \in DOMAIN surface_ids THEN "already had surface ID" ELSE "")
    /\ connected' = connected \cup {o}
    /\ StillRunning
    /\ UNCHANGED <<state, now, locked_seen, locked_pairs>>
OutputCreated(o) ==
    /\ proc = "running"
    /\ unique_count <= MaxSurfaceId
    /\ unique_count' = UniqueAfter(unique_count)
    /\ surface_ids' = Insert(surface_ids, o, unique_count)
    /\ Returns(OutMsg("OutputCreated", o), <<>>,
               IF o \in DOMAIN surface_ids THEN "already had surface ID" ELSE "")
    /\ connected' = connected \cup {o}
    /\ StillRunning
    /\ UNCHANGED <<state, now, locked_seen, locked_pairs>>

OutputRemoved(o) ==
    /\ proc = "running"
    /\ surface_ids' = Remove(surface_ids, o)
    /\ IF o \in DOMAIN surface_ids
       THEN Returns(OutMsg("OutputRemoved", o),
                    IF IsLocked(state)
                    THEN <<destroy_lock_surface(surface_ids[o])>> ELSE <<>>,
                    "")
       ELSE Returns(OutMsg("OutputRemoved", o), <<>>, "no surface found")
    /\ connected' = connected \ {o}
    /\ StillRunning
    /\ UNCHANGED <<state, now, unique_count, locked_seen, locked_pairs>>

OutputInfoUpdatedReregisters(o) ==
    /\ proc = "running"
    /\ surface_ids' = Insert(surface_ids, o, unique_count)
    /\ Returns(OutMsg("OutputInfoUpdated", o), <<>>, "")
    /\ StillRunning
    /\ UNCHANGED <<state, now, unique_count, connected,
                   locked_seen, locked_pairs>>
OutputInfoUpdated(o) ==
    /\ proc = "running"
    /\ Returns(OutMsg("OutputInfoUpdated", o), <<>>, "")
    /\ StillRunning
    /\ UNCHANGED <<state, surface_ids, now, unique_count, connected,
                   locked_seen, locked_pairs>>

\* Focused(_, surface_id): the payload is only logged.
SessionFocused ==
    /\ proc = "running"
    /\ Returns(Msg("SessionFocused"), <<>>, "")
    /\ StillRunning
    /\ UNCHANGED <<state, surface_ids, now, unique_count, connected,
                   locked_seen, locked_pairs>>

SessionLocked ==
    /\ proc = "running"
    /\ state' = "Locked"
    /\ \E order \in IterOrders(surface_ids) :
           Returns(Msg("SessionLocked"),
                   LockSurfaces(surface_ids, order), "")
    /\ locked_seen' = TRUE
    /\ locked_pairs' = locked_pairs \cup
                           {<<o, surface_ids[o]>> : o \in DOMAIN surface_ids}
    /\ StillRunning
    /\ UNCHANGED <<surface_ids, now, unique_count, connected>>

SessionUnlockedKeepsRunning ==
    /\ proc = "running"
    /\ state' = "Unlocked"
    /\ Returns(Msg("SessionUnlocked"), <<>>, "")
    /\ StillRunning
    /\ UNCHANGED <<surface_ids, now, unique_count, connected,
                   locked_seen, locked_pairs>>
SessionUnlocked ==
    /\ proc = "running"
    /\ state' = "Unlocked"
    /\ Returns(Msg("SessionUnlocked"), <<>>, "")
    /\ proc' = "exited"
    /\ exit_code' = ExitOk
    /\ UNCHANGED <<surface_ids, now, unique_count, connected,
                   locked_seen, locked_pairs>>

\* The arms that are todo!(): the handler panics.
Panics(m) ==
    /\ proc = "running"
    /\ Returns(m, <<>>, "")
    /\ proc' = "panicked"
    /\ exit_code' = PanicExitCode
    /\ UNCHANGED <<state, surface_ids, now, unique_count, connected,
                   locked_seen, locked_pairs>>

SessionFinished == Panics(Msg("SessionFinished"))

SessionNotSupported == Panics(Msg("SessionNotSupported"))

SessionUnfocused == Panics(Msg("SessionUnfocused"))

UnlockMovesToUnlocking ==
    /\ proc = "running"
    /\ state' = "Unlocking"
    /\ Returns(Msg("Unlock"), <<unlock>>, "")
    /\ StillRunning
    /\ UNCHANGED <<surface_ids, now, unique_count, connected,
                   locked_seen, locked_pairs>>
UnlockOnlyWhenLocked ==
    /\ proc = "running"
    /\ Returns(Msg("Unlock"), IF state = "Locked" THEN <<unlock>> ELSE <<>>, "")
    /\ StillRunning
    /\ UNCHANGED <<state, surface_ids, now, unique_count, connected,
                   locked_seen, locked_pairs>>
Unlock ==
    /\ proc = "running"
    /\ Returns(Msg("Unlock"), <<unlock>>, "")
    /\ StillRunning
    /\ UNCHANGED <<state, surface_ids, now, unique_count, connected,
                   locked_seen, locked_pairs>>

Tick ==
    /\ proc = "running"
    /\ now < MaxNow
    /\ now' = now + 1
    /\ Returns(Msg("Tick"), <<>>, "")
    /\ StillRunning
    /\ UNCHANGED <<state, surface_ids, unique_count, connected,
                   locked_seen, locked_pairs>>

\* The messages App::subscription produces (Message::None is never sent).
Next ==
    \/ \E o \in Outputs : OutputCreated(o)
    \/ \E o \in Outputs : OutputRemoved(o)
    \/ \E o \in Outputs : OutputInfoUpdated(o)
    \/ SessionFocused
    \/ SessionLocked
    \/ SessionUnlocked
    \/ SessionFinished
    \/ SessionNotSupported
    \/ SessionUnfocused
    \/ Unlock
    \/ Tick

Spec == Init /\ [][Next]_vars

\* ------------------------------------------------------- claim vocabulary
\* How many times command c has been emitted so far.
CountCmd(c) == Cardinality({i \in 1..Len(commands) : commands[i] = c})

\* The commands of a batch, as a set.
Batch(cmds) == {cmds[i] : i \in 1..Len(cmds)}

DestroysIn(cmds) == {c \in Batch(cmds) : c.op = "DestroySurface"}

\* The step just taken handled a message of this kind.
Handles(kind) == msg'.kind = kind /\ vars' # vars

\* ----------------------------------------------------------------- claims

\* C1: whenever SessionState = Locked, for every (output, surface_id) pair
\* that was in the registry when a SessionLocked confirmation was handled,
\* exactly one CreateSurface(surface_id, output) command has been emitted,
\* repeated SessionLocked events included.
C1_CreateSurfaceExactlyOnce ==
    state = "Locked" =>
        \A p \in locked_pairs : CountCmd(get_lock_surface(p[2], p[1])) = 1

\* C2: while SessionState = Locked, every connected output is registered and
\* a CreateSurface was emitted for its registered surface id and no
\* DestroySurface for that id.
C2_EveryConnectedOutputCovered ==
    state = "Locked" =>
        \A o \in connected :
            /\ o \in DOMAIN surface_ids
            /\ CountCmd(get_lock_surface(surface_ids[o], o)) >= 1
            /\ CountCmd(destroy_lock_surface(surface_ids[o])) = 0

\* C3: a step emits DestroySurface if and only if it handles OutputRemoved(o)
\* for a registered o while SessionState = Locked; that step emits exactly
\* one DestroySurface, for o's registered id, removes only o's entry and
\* leaves SessionState = Locked.
C3_DestroyIffRemovedWhileLocked ==
    [][ IF /\ msg'.kind = "OutputRemoved"
           /\ msg'.output \in DOMAIN surface_ids
           /\ state = "Locked"
        THEN /\ emitted' = <<destroy_lock_surface(surface_ids[msg'.output])>>
             /\ commands' = Append(commands, destroy_lock_surface(surface_ids[msg'.output]))
             /\ DOMAIN surface_ids' = DOMAIN surface_ids \ {msg'.output}
             /\ \A x \in DOMAIN surface_ids' : surface_ids'[x] = surface_ids[x]
             /\ state' = "Locked"
        ELSE /\ DestroysIn(emitted') = {}
             /\ \A id \in 1..MaxSurfaceId :
                    CountCmd(destroy_lock_surface(id))' = CountCmd(destroy_lock_surface(id))
      ]_vars

\* C3 witness: OutputRemoved was just handled while Locked, one DestroySurface
\* went out and another output is still registered (Scenario B).
C3_Witness ==
    /\ msg.kind = "OutputRemoved"
    /\ state = "Locked"
    /\ Len(emitted) = 1
    /\ emitted[1].op = "DestroySurface"
    /\ Cardinality(DOMAIN surface_ids) = 1
    /\ msg.output \notin DOMAIN surface_ids

\* C4: a step that handles SessionUnlocked ends the process with status 0 and
\* emits no command, whatever the state and registry before it; once the
\* process has ended no command is emitted.
C4_UnlockedExitsZero ==
    [][ /\ Handles("SessionUnlocked") =>
            /\ proc' = "exited"
            /\ exit_code' = ExitOk
            /\ emitted' = <<>>
            /\ commands' = commands
        /\ proc # "running" => commands' = commands
      ]_vars

\* C4 witness: the process exited on SessionUnlocked after a lock had been
\* confirmed with an output registered.
C4_Witness ==
    /\ msg.kind = "SessionUnlocked"
    /\ proc = "exited"
    /\ exit_code = ExitOk
    /\ locked_seen
    /\ surface_ids # EmptyMap

\* C5: the registry's keys are exactly the outputs created and not removed
\* since, and distinct registered outputs have distinct surface ids.
C5_RegistryTracksOutputs ==
    /\ DOMAIN surface_ids = connected
    /\ \A o1, o2 \in DOMAIN surface_ids :
           o1 # o2 => surface_ids[o1] # surface_ids[o2]

\* C5 witness: two outputs are registered after an earlier removal.
C5_Witness ==
    /\ Cardinality(DOMAIN surface_ids) = 2
    /\ unique_count > 3

C7_RemoveUnknownIsNoOp ==
    [][ (msg'.kind = "OutputRemoved" /\ msg'.output \notin DOMAIN surface_ids) =>
            /\ emitted' = <<>>
            /\ commands' = commands
            /\ surface_ids' = surface_ids
            /\ state' = state
      ]_vars

\* C7 witness: an unknown output's removal was just handled (it warned) while
\* Locked with another output registered.
C7_Witness ==
    /\ msg.kind = "OutputRemoved"
    /\ warning = "no surface found"
    /\ state = "Locked"
    /\ surface_ids # EmptyMap

\* C8: a step that handles SessionLocked with n registered outputs sets
\* SessionState to Locked and emits exactly n commands: one CreateSurface per
\* registered (output, id) pair and nothing else.
C8_LockedCreatesOnePerOutput ==
    [][ Handles("SessionLocked") =>
            /\ state' = "Locked"
            /\ Len(emitted') = Cardinality(DOMAIN surface_ids)
            /\ Batch(emitted') =
                   {get_lock_surface(surface_ids[o], o) : o \in DOMAIN surface_ids}
            /\ commands' = commands \o emitted'
            /\ surface_ids' = surface_ids
      ]_vars

\* C8 witness: SessionLocked was just handled with two outputs registered
\* (Scenario A).
C8_Witness ==
    /\ msg.kind = "SessionLocked"
    /\ state = "Locked"
    /\ Len(emitted) = 2
    /\ Cardinality(DOMAIN surface_ids) = 2

\* C9: from process start until SessionLocked is handled, one RequestLock has
\* been sent and SessionState is Locking.
C9_LockingUntilLocked ==
    (proc = "running" /\ ~locked_seen) =>
        /\ CountCmd(lock) = 1
        /\ state = "Locking"

\* C10: SessionState changes only in a step that handles SessionLocked or
\* SessionUnlocked.
C10_StateChangesOnlyOnConfirmation ==
    [][ state' # state => msg'.kind \in {"SessionLocked", "SessionUnlocked"} ]_vars

\* C10 witness: after the state became Locked, a message that is no
\* confirmation was handled and the state is still Locked.
C10_Witness ==
    /\ state = "Locked"
    /\ msg.kind \in {"OutputCreated", "OutputRemoved", "OutputInfoUpdated",
                     "SessionFocused", "Unlock", "Tick"}

\* C11: a step that handles Unlock emits exactly one RequestUnlock, in any
\* state, and changes neither SessionState nor the registry; SessionState
\* leaves Locked only in a step that handles SessionUnlocked.
C11_UnlockForwardedUnconditionally ==
    [][ /\ Handles("Unlock") =>
            /\ emitted' = <<unlock>>
            /\ commands' = Append(commands, unlock)
            /\ state' = state
            /\ surface_ids' = surface_ids
        /\ (state = "Locked" /\ state' # "Locked") => msg'.kind = "SessionUnlocked"
      ]_vars

\* C11 witness: Unlock was just handled before any lock confirmation and the
\* state is still Unlocked with an output registered.
C11_Witness ==
    /\ msg.kind = "Unlock"
    /\ emitted = <<unlock>>
    /\ ~locked_seen
    /\ state = "Unlocked"
    /\ surface_ids # EmptyMap

\* C12: a step that handles a focus-changed event (SessionFocused or
\* SessionUnfocused) leaves SessionState and the registry unchanged, emits no
\* command, and the process is still running after it.
C12_FocusChangeIsInformational ==
    [][ msg'.kind \in {"SessionFocused", "SessionUnfocused"} =>
            /\ state' = state
            /\ surface_ids' = surface_ids
            /\ emitted' = <<>>
            /\ commands' = commands
            /\ proc' = "running"
      ]_vars

\* C13: the process has ended only if the last message handled was
\* SessionUnlocked, and then by exit, not by abort.
C13_TerminatesOnlyOnUnlocked ==
    proc # "running" => (msg.kind = "SessionUnlocked" /\ proc = "exited")

\* C14: a step that handles OutputCreated(o) for an unregistered o while
\* SessionState = Locked registers o with a surface id no output holds and
\* none held before, keeps the other entries, keeps SessionState = Locked and
\* emits no command.
C14_HotplugWhileLockedOnlyRegisters ==
    [][ (/\ msg'.kind = "OutputCreated"
         /\ msg'.output \notin DOMAIN surface_ids
         /\ state = "Locked") =>
            /\ DOMAIN surface_ids' = DOMAIN surface_ids \cup {msg'.output}
            /\ \A x \in DOMAIN surface_ids :
                   /\ surface_ids'[x] = surface_ids[x]
                   /\ surface_ids'[msg'.output] # surface_ids[x]
            /\ surface_ids'[msg'.output] = unique_count
            /\ \A i \in 1..Len(commands) : commands[i].id # unique_count
            /\ state' = "Locked"
            /\ emitted' = <<>>
            /\ commands' = commands
      ]_vars

\* C14 witness: an output was just hot-plugged while Locked, next to an
\* output registered before it.
C14_Witness ==
    /\ msg.kind = "OutputCreated"
    /\ warning = ""
    /\ state = "Locked"
    /\ Cardinality(DOMAIN surface_ids) = 2
    /\ <<msg.output, surface_ids[msg.output]>> \notin locked_pairs

\* C15: a step that handles Tick or OutputInfoUpdated leaves SessionState and
\* the registry unchanged and emits no command; of the App's fields a Tick
\* step changes at most the clock value.
C15_TickAndInfoUpdateChangeNothing ==
    [][ /\ msg'.kind \in {"Tick", "OutputInfoUpdated"} =>
            /\ state' = state
            /\ surface_ids' = surface_ids
            /\ emitted' = <<>>
            /\ commands' = commands
            /\ unique_count' = unique_count
            /\ proc' = proc
        /\ msg'.kind = "OutputInfoUpdated" => now' = now
        /\ now' # now => msg'.kind = "Tick"
      ]_vars

\* C15 witness: a Tick was just handled while Locked with an output
\* registered, and the clock value has changed.
C15_Witness ==
    /\ msg.kind = "Tick"
    /\ now = 1
    /\ state = "Locked"
    /\ surface_ids # EmptyMap

\* Commands of one kind emitted so far.
CountOp(op) == Cardinality({i \in 1..Len(commands) : commands[i].op = op})

\* C16: exactly one RequestLock is ever emitted, and as long as no
\* SessionLocked has been handled the running machine is in Locking and has
\* emitted no CreateSurface.
C16_LockNeverRetriedStaysLocking ==
    /\ CountOp("RequestLock") = 1
    /\ (~locked_seen /\ proc = "running") =>
           /\ state = "Locking"
           /\ CountOp("CreateSurface") = 0

\* C17: before the first SessionLocked has been handled no CreateSurface and
\* no DestroySurface command has been emitted.
C17_NoSurfaceCommandBeforeLocked ==
    ~locked_seen =>
        /\ CountOp("CreateSurface") = 0
        /\ CountOp("DestroySurface") = 0

\* C17 witness: before any lock confirmation a registered output was just
\* removed, after an Unlock request, with another output still registered.
C17_Witness ==
    /\ ~locked_seen
    /\ msg.kind = "OutputRemoved"
    /\ warning = ""
    /\ CountOp("RequestUnlock") = 1
    /\ surface_ids # EmptyMap

\* C18: every DestroySurface(id) emitted follows a CreateSurface(id, _) with
\* no DestroySurface(id) in between, and once OutputRemoved(o) has been
\* handled while Locked every surface created for o has been destroyed.
C18_CreateDestroyPairUp ==
    /\ \A i \in 1..Len(commands) :
           commands[i].op = "DestroySurface" =>
               \E j \in 1..(i - 1) :
                   /\ commands[j].op = "CreateSurface"
                   /\ commands[j].id = commands[i].id
                   /\ \A k \in (j + 1)..(i - 1) :
                          ~(commands[k].op = "DestroySurface"
                            /\ commands[k].id = commands[i].id)
    /\ (msg.kind = "OutputRemoved" /\ state = "Locked") =>
           \A j \in 1..Len(commands) :
               (commands[j].op = "CreateSurface" /\ commands[j].output = msg.output) =>
                   CountCmd(destroy_lock_surface(commands[j].id)) >= 1

\* --------------------------------------------------- fair specification
\* The compositor answers a RequestUnlock with a SessionUnlocked event.
UnlockAnswered ==
    /\ \E i \in 1..Len(commands) : commands[i] = unlock
    /\ SessionUnlocked

\* The bound on the command log keeps room for the timer's first
\* RequestUnlock, so that the bound never switches the timer off.
RoomForUnlock ==
    (\A i \in 1..Len(commands') : commands'[i] # unlock) =>
        Len(commands') < MaxCommands

LiveNext ==
    \/ (\E o \in Outputs : OutputCreated(o)) /\ RoomForUnlock
    \/ (\E o \in Outputs : OutputRemoved(o)) /\ RoomForUnlock
    \/ (\E o \in Outputs : OutputInfoUpdated(o)) /\ RoomForUnlock
    \/ SessionFocused /\ RoomForUnlock
    \/ SessionLocked /\ RoomForUnlock
    \/ SessionUnlocked
    \/ SessionFinished
    \/ SessionNotSupported
    \/ SessionUnfocused
    \/ Unlock
    \/ Tick /\ RoomForUnlock

\* time_subscription(10) fires for ever (weak fairness of Unlock), and the
\* compositor answers (weak fairness of UnlockAnswered).
LiveSpec ==
    /\ Init
    /\ [][LiveNext]_vars
    /\ WF_vars(Unlock)
    /\ WF_vars(UnlockAnswered)

\* C19: with the auto-unlock timer and the compositor's answer weakly fair,
\* every execution eventually reaches process termination with status 0.
C19_EventuallyExitsZero ==
    <>(proc = "exited" /\ exit_code = ExitOk)

====
